---- MODULE Spec2Model ----
(***************************************************************************)
(* command-argus: the Command entity (command.rs), the file-backed         *)
(* CommandStorage (storage.rs), the CommandExecutor (executor.rs) and the  *)
(* Tauri handlers that drive them under one storage mutex (lib.rs).        *)
(*                                                                         *)
(* Strings that are only compared (names, tags, paths, keys) are TLA+      *)
(* strings.  Strings that are scanned or rewritten (the program and its    *)
(* arguments) are sequences of one-character strings.  Option<T> is a      *)
(* sequence of length 0 (None) or 1 (Some).  A u32 is a pair <<hi, lo>>     *)
(* of 16-bit limbs, so that the counter keeps its 32-bit width.            *)
(***************************************************************************)
EXTENDS Integers, Sequences, FiniteSets, TLC

VARIABLES file, written, clock, nextId, handled, last, ent, pure, exe, conc

vars == <<file, written, clock, nextId, handled, last, ent, pure, exe, conc>>

(***************************************************************************)
(* Bounds of the model.                                                    *)
(***************************************************************************)
MaxRequests == 3
MaxClock == 1
MaxMarkCalls == 3
MaxEntityItems == 1
MaxProgramLen == 4
MaxConcRequests == 2

(***************************************************************************)
(* Generic helpers.  Vec::retain and Iterator::filter are SelectSeq.       *)
(***************************************************************************)
None == <<>>
Some(x) == <<x>>
IsSome(o) == Len(o) = 1
Unwrap(o) == o[1]

Range(s) == {s[i] : i \in 1..Len(s)}

RECURSIVE SeqsUpTo(_, _)
SeqsUpTo(S, n) ==
    IF n = 0 THEN {<<>>}
    ELSE LET shorter == SeqsUpTo(S, n - 1)
         IN  shorter \cup {Append(s, x) : s \in {t \in shorter : Len(t) = n - 1}, x \in S}

NoDuplicates(s) == \A i, j \in 1..Len(s) : s[i] = s[j] => i = j

(***************************************************************************)
(* u32 arithmetic on 16-bit limbs (use_count: u32).                        *)
(***************************************************************************)
U32Bits == 32
Limb == 2 ^ (U32Bits \div 2)

U32Zero == <<0, 0>>
U32Max == <<Limb - 1, Limb - 1>>
U32IsZero(u) == u = U32Zero
\* a + b as an unbounded pair: hi may exceed Limb - 1 when the sum overflows.
U32Wide(a, b) ==
    LET lo == a[2] + b[2]
    IN  <<a[1] + b[1] + (lo \div Limb), lo % Limb>>
U32AddOverflows(a, b) == U32Wide(a, b)[1] >= Limb
U32WrappingAdd(a, b) == <<U32Wide(a, b)[1] % Limb, U32Wide(a, b)[2]>>
U32One == <<0, 1>>
U32Less(a, b) == a[1] < b[1] \/ (a[1] = b[1] /\ a[2] < b[2])

\* The number of calls made, kept without a width: <<top, hi, lo>>.
WideZero == <<0, 0, 0>>
WideAdd(w, u) ==
    LET s == U32Wide(<<w[2], w[3]>>, u)
    IN  <<w[1] + (s[1] \div Limb), s[1] % Limb, s[2]>>
WideOfU32(u) == <<0, u[1], u[2]>>

(***************************************************************************)
(* Strings as character sequences; str::replace.                           *)
(***************************************************************************)
\* str::replace(from, to): every non-overlapping match of from, scanning
\* left to right, is replaced by to.  from is never empty here.
RECURSIVE str_replace(_, _, _)
str_replace(s, from, to) ==
    IF Len(s) < Len(from) THEN s
    ELSE IF SubSeq(s, 1, Len(from)) = from
         THEN to \o str_replace(SubSeq(s, Len(from) + 1, Len(s)), from, to)
         ELSE <<Head(s)>> \o str_replace(Tail(s), from, to)

\* format!("{{{}}}", name) and format!("${{{}}}", name)
format_brace(name) == <<"{">> \o name \o <<"}">>
format_dollar_brace(name) == <<"$", "{">> \o name \o <<"}">>

Contains(s, sub) ==
    \E i \in 1..(Len(s) - Len(sub) + 1) : SubSeq(s, i, i + Len(sub) - 1) = sub

(***************************************************************************)
(* Command entity (command.rs).                                            *)
(***************************************************************************)
\* Command::new: Uuid::new_v4() is id, Utc::now() is now.
new(id, name, command, now) ==
    [id |-> id, name |-> name, command |-> command, args |-> <<>>,
     description |-> None, working_directory |-> None,
     environment_variables |-> <<>>, tags |-> <<>>,
     created_at |-> now, updated_at |-> now, last_used_at |-> None,
     use_count |-> U32Zero, parameters |-> <<>>]

with_args(c, args) == [c EXCEPT !.args = args]
with_description(c, description) == [c EXCEPT !.description = Some(description)]
with_working_directory(c, dir) == [c EXCEPT !.working_directory = Some(dir)]

add_environment_variable(c, key, value) ==
    [c EXCEPT !.environment_variables = Append(@, [key |-> key, value |-> value])]

add_tag(c, tag) ==
    IF tag \notin Range(c.tags) THEN [c EXCEPT !.tags = Append(@, tag)] ELSE c

remove_tag(c, tag) ==
    LET Keep(t) == t # tag IN [c EXCEPT !.tags = SelectSeq(@, Keep)]

\* self.use_count += 1 on a u32: a release build wraps, a debug build
\* panics after last_used_at has been assigned.
mark_as_used_overflows(c) == U32AddOverflows(c.use_count, U32One)
mark_as_used(c, now) ==
    [c EXCEPT !.last_used_at = Some(now),
              !.use_count = U32WrappingAdd(@, U32One)]
mark_as_used_panicked(c, now) == [c EXCEPT !.last_used_at = Some(now)]

command_update(c, now) == [c EXCEPT !.updated_at = now]

add_parameter(c, parameter) == [c EXCEPT !.parameters = Append(@, parameter)]
remove_parameter(c, name) ==
    LET Keep(p) == p.name # name IN [c EXCEPT !.parameters = SelectSeq(@, Keep)]

\* parts.join(" ")
RECURSIVE join_space(_)
join_space(parts) ==
    IF Len(parts) = 0 THEN <<>>
    ELSE IF Len(parts) = 1 THEN parts[1]
         ELSE parts[1] \o <<" ">> \o join_space(Tail(parts))
full_command(c) == join_space(<<c.command>> \o c.args)

\* Regex \$?\{([^}]+)\} tried at position i of s: an optional "$", a "{", one
\* or more characters other than "}", a "}".  The class cannot cross a "}", so
\* the match ends at the first "}" after the "{" and needs a character in
\* between.  <<open, close>> are the positions of the braces; <<>> is no match.
first_close(s, j) ==
    IF \E k \in (j + 1)..Len(s) : s[k] = "}"
    THEN CHOOSE k \in (j + 1)..Len(s) :
            s[k] = "}" /\ \A m \in (j + 1)..(k - 1) : s[m] # "}"
    ELSE 0
regex_match_at(s, i) ==
    LET j == IF s[i] = "$" THEN i + 1 ELSE i
        k == IF j <= Len(s) /\ s[j] = "{" THEN first_close(s, j) ELSE 0
    IN  IF k > j + 1 THEN <<j, k>> ELSE <<>>

\* re.captures_iter(s): the leftmost match at or after p, its group 1, then
\* on from the end of that match.
RECURSIVE captures_iter(_, _)
captures_iter(s, p) ==
    IF p > Len(s) THEN <<>>
    ELSE LET m == regex_match_at(s, p)
         IN  IF m = <<>> THEN captures_iter(s, p + 1)
             ELSE <<SubSeq(s, m[1] + 1, m[2] - 1)>> \o captures_iter(s, m[2] + 1)

\* The loop body: push the name unless placeholders contains it.
RECURSIVE push_new(_, _)
push_new(placeholders, names) ==
    IF names = <<>> THEN placeholders
    ELSE push_new(IF Head(names) \in Range(placeholders) THEN placeholders
                  ELSE Append(placeholders, Head(names)),
                  Tail(names))

\* Mutant of detect_placeholders: every capture is pushed.
detect_placeholders_all(c) == captures_iter(full_command(c), 1)

detect_placeholders(c) == push_new(<<>>, captures_iter(full_command(c), 1))

\* One turn of the loop over the map: {name} first, then ${name}.
replace_pair(s, name, value) ==
    str_replace(str_replace(s, format_brace(name), value),
                format_dollar_brace(name), value)

\* The loop over the HashMap, in the order the map iterates: order is a
\* sequence of the map's keys, values the map as a function.
RECURSIVE replace_in(_, _, _)
replace_in(s, values, order) ==
    IF order = <<>> THEN s
    ELSE replace_in(replace_pair(s, Head(order), values[Head(order)]),
                    values, Tail(order))

\* Command::replace_placeholders(&self, values) -> (String, Vec<String>)
replace_placeholders(c, values, order) ==
    [command |-> replace_in(c.command, values, order),
     args |-> [i \in 1..Len(c.args) |-> replace_in(c.args[i], values, order)]]

(***************************************************************************)
(* Serialization (serde derive on Command, serde_json).  A JSON object is  *)
(* a record keyed by the struct's field names, a JSON array a sequence, a  *)
(* JSON string or number the value itself.  A position that may hold null  *)
(* (an Option) holds JNull or JValue(v).                                   *)
(***************************************************************************)
JNull == [null |-> TRUE]
JValue(v) == [null |-> FALSE, value |-> v]

\* Mutant of ser_option: a Some is written as null.
ser_option_null(o) == JNull

\* Option<T>: None is null, Some(v) is v.
ser_option(o) == IF IsSome(o) THEN JValue(Unwrap(o)) ELSE JNull
de_option(j) == IF j.null THEN None ELSE Some(j.value)

\* #[serde(rename_all = "snake_case")] on ParameterType
parameter_type_ser(t) ==
    CASE t = "Text" -> "text" [] t = "File" -> "file"
      [] t = "Directory" -> "directory" [] t = "Select" -> "select"
parameter_type_de(s) ==
    CASE s = "text" -> "Text" [] s = "file" -> "File"
      [] s = "directory" -> "Directory" [] s = "select" -> "Select"

ser_environment_variable(ev) == [key |-> ev.key, value |-> ev.value]
de_environment_variable(j) == [key |-> j.key, value |-> j.value]

ser_parameter(p) ==
    [name |-> p.name,
     placeholder |-> p.placeholder,
     parameter_type |-> parameter_type_ser(p.parameter_type),
     required |-> p.required,
     default_value |-> ser_option(p.default_value),
     options |-> ser_option(p.options)]
de_parameter(j) ==
    [name |-> j.name,
     placeholder |-> j.placeholder,
     parameter_type |-> parameter_type_de(j.parameter_type),
     required |-> j.required,
     default_value |-> de_option(j.default_value),
     options |-> de_option(j.options)]

ser_command(c) ==
    [id |-> c.id,
     name |-> c.name,
     command |-> c.command,
     args |-> c.args,
     description |-> ser_option(c.description),
     working_directory |-> ser_option(c.working_directory),
     environment_variables |->
        [i \in 1..Len(c.environment_variables) |->
            ser_environment_variable(c.environment_variables[i])],
     tags |-> c.tags,
     created_at |-> c.created_at,
     updated_at |-> c.updated_at,
     last_used_at |-> ser_option(c.last_used_at),
     use_count |-> c.use_count,
     parameters |-> [i \in 1..Len(c.parameters) |-> ser_parameter(c.parameters[i])]]

de_command(j) ==
    [id |-> j.id,
     name |-> j.name,
     command |-> j.command,
     args |-> j.args,
     description |-> de_option(j.description),
     working_directory |-> de_option(j.working_directory),
     environment_variables |->
        [i \in 1..Len(j.environment_variables) |->
            de_environment_variable(j.environment_variables[i])],
     tags |-> j.tags,
     created_at |-> j.created_at,
     updated_at |-> j.updated_at,
     last_used_at |-> de_option(j.last_used_at),
     use_count |-> j.use_count,
     parameters |-> [i \in 1..Len(j.parameters) |-> de_parameter(j.parameters[i])]]

\* serde_json::to_string_pretty(commands) / serde_json::from_str(&content)
to_string_pretty(commands) == [i \in 1..Len(commands) |-> ser_command(commands[i])]
from_str(content) == [i \in 1..Len(content) |-> de_command(content[i])]

(***************************************************************************)
(* CommandStorage (storage.rs).  f is the storage file: None while the     *)
(* path does not exist, Some(content) afterwards.  Every operation returns *)
(* [err, ret, file, saved]: err is "" for Ok, ret the Ok value, file the   *)
(* file afterwards, saved the vector handed to save_all (None: no save).   *)
(***************************************************************************)
load_all(f) == IF f = None THEN <<>> ELSE from_str(Unwrap(f))
save_all(commands) == Some(to_string_pretty(commands))

Failed(f, err) == [err |-> err, ret |-> None, file |-> f, saved |-> None]
Done(f, ret) == [err |-> "", ret |-> Some(ret), file |-> f, saved |-> None]
Saved(commands, ret) ==
    [err |-> "", ret |-> Some(ret), file |-> save_all(commands), saved |-> Some(commands)]

\* commands.iter().find(|c| c.id == id): the first index, 0 when absent.
find_id(commands, id) ==
    IF \E i \in 1..Len(commands) : commands[i].id = id
    THEN CHOOSE i \in 1..Len(commands) :
            /\ commands[i].id = id
            /\ \A j \in 1..(i - 1) : commands[j].id # id
    ELSE 0

\* Mutant of create: the duplicate-name check is missing.
create_unchecked(f, command) ==
    Saved(Append(load_all(f), command), command)

create(f, command) ==
    LET commands == load_all(f)
    IN  IF \E i \in 1..Len(commands) : commands[i].name = command.name
        THEN Failed(f, "DuplicateName")
        ELSE Saved(Append(commands, command), command)

read(f, id) ==
    LET commands == load_all(f)
        i == find_id(commands, id)
    IN  IF i = 0 THEN Failed(f, "NotFound") ELSE Done(f, commands[i])

\* Mutant of delete: retain keeps the entry with the id instead of the others.
delete_inverted(f, id) ==
    LET commands == load_all(f)
        Keep(c) == c.id = id
        kept == SelectSeq(commands, Keep)
    IN  IF Len(kept) = Len(commands) THEN Failed(f, "NotFound")
        ELSE Saved(kept, <<>>)

delete(f, id) ==
    LET commands == load_all(f)
        Keep(c) == c.id # id
        kept == SelectSeq(commands, Keep)
    IN  IF Len(kept) = Len(commands) THEN Failed(f, "NotFound")
        ELSE Saved(kept, <<>>)

list(f) == Done(f, load_all(f))

\* Mutant of search_by_tags: every tag of the query must be a tag of the entry.
search_by_all_tags(f, tags) ==
    LET Hit(c) == \A i \in 1..Len(tags) : tags[i] \in Range(c.tags)
    IN  Done(f, SelectSeq(load_all(f), Hit))

search_by_tags(f, tags) ==
    LET Hit(c) == \E i \in 1..Len(tags) : tags[i] \in Range(c.tags)
    IN  Done(f, SelectSeq(load_all(f), Hit))

\* update_fn is the closure handed to update, as data:
\*   [kind |-> "update_command", request |-> Some(r)]  lib.rs:196-236
\*   [kind |-> "mark_as_used",  request |-> None]      lib.rs:274-276, 314-316
string_to_parameter_type(s) ==
    CASE s = "file" -> "File" [] s = "directory" -> "Directory"
      [] s = "select" -> "Select" [] OTHER -> "Text"

parameter_from_dto(p) ==
    [name |-> p.name, placeholder |-> p.placeholder,
     parameter_type |-> string_to_parameter_type(p.parameter_type),
     required |-> p.required, default_value |-> p.default_value,
     options |-> p.options]

update_command_fn(request, cmd, now) ==
    LET c1 == IF IsSome(request.name)
              THEN [cmd EXCEPT !.name = Unwrap(request.name)] ELSE cmd
        c2 == IF IsSome(request.command)
              THEN [c1 EXCEPT !.command = Unwrap(request.command)] ELSE c1
        c3 == IF IsSome(request.args)
              THEN [c2 EXCEPT !.args = Unwrap(request.args)] ELSE c2
        c4 == IF IsSome(request.description)
              THEN [c3 EXCEPT !.description = Some(Unwrap(request.description))] ELSE c3
        c5 == IF IsSome(request.working_directory)
              THEN [c4 EXCEPT !.working_directory = Some(Unwrap(request.working_directory))]
              ELSE c4
        c6 == IF IsSome(request.environment_variables)
              THEN [c5 EXCEPT !.environment_variables =
                        LET evs == Unwrap(request.environment_variables)
                        IN  [i \in 1..Len(evs) |-> [key |-> evs[i].key, value |-> evs[i].value]]]
              ELSE c5
        c7 == IF IsSome(request.tags)
              THEN [c6 EXCEPT !.tags = Unwrap(request.tags)] ELSE c6
        c8 == IF IsSome(request.parameters)
              THEN [c7 EXCEPT !.parameters =
                        LET ps == Unwrap(request.parameters)
                        IN  [i \in 1..Len(ps) |-> parameter_from_dto(ps[i])]]
              ELSE c7
    IN  command_update(c8, now)

call_update_fn(update_fn, cmd, now) ==
    IF update_fn.kind = "mark_as_used" THEN mark_as_used(cmd, now)
    ELSE update_command_fn(Unwrap(update_fn.request), cmd, now)

\* Mutant of update: the entry is cloned for the return value before the
\* mutator runs.
update_returns_original(f, id, update_fn, now) ==
    LET commands == load_all(f)
        i == find_id(commands, id)
    IN  IF i = 0 THEN Failed(f, "NotFound")
        ELSE LET command == command_update(call_update_fn(update_fn, commands[i], now), now)
             IN  Saved([commands EXCEPT ![i] = command], commands[i])

update(f, id, update_fn, now) ==
    LET commands == load_all(f)
        i == find_id(commands, id)
    IN  IF i = 0 THEN Failed(f, "NotFound")
        ELSE LET command == command_update(call_update_fn(update_fn, commands[i], now), now)
             IN  Saved([commands EXCEPT ![i] = command], command)

(***************************************************************************)
(* CommandExecutor (executor.rs).  host is the process's surroundings:     *)
(*   host.macos     the build has target_os = "macos"                      *)
(*   host.path_env  env::var("PATH"): None when unset, else Some(string)   *)
(*   host.spawn_ok  whether process.output() succeeds                      *)
(* ExistingDirs are the paths for which Path::exists() holds.  A result is *)
(* [err, path, spawned]: spawned is the child as it was started, with env  *)
(* the assignments made by process.env, in order.                          *)
(***************************************************************************)
ExistingDirs == {"/tmp"}

Spawned(program, args, cwd, env) ==
    [err |-> "", path |-> None,
     spawned |-> Some([program |-> program, args |-> args, cwd |-> cwd, env |-> env])]
InvalidPath(dir) == [err |-> "InvalidPath", path |-> Some(dir), spawned |-> None]
ExecutionFailed == [err |-> "ExecutionFailed", path |-> None, spawned |-> None]

additional_paths ==
    <<<<"/", "o", "p", "t", "/", "h", "o", "m", "e", "b", "r", "e", "w", "/", "b", "i", "n">>,
      <<"/", "u", "s", "r", "/", "l", "o", "c", "a", "l", "/", "b", "i", "n">>,
      <<"/", "u", "s", "r", "/", "b", "i", "n">>,
      <<"/", "b", "i", "n">>,
      <<"/", "u", "s", "r", "/", "s", "b", "i", "n">>,
      <<"/", "s", "b", "i", "n">>>>

\* The loop over additional_paths: a path is pushed, after a ":" unless
\* path_env is empty, when path_env does not contain it as a substring.
RECURSIVE push_additional(_, _)
push_additional(path_env, additional) ==
    IF additional = <<>> THEN path_env
    ELSE push_additional(
            IF ~Contains(path_env, Head(additional))
            THEN (IF path_env # <<>> THEN Append(path_env, ":") ELSE path_env)
                 \o Head(additional)
            ELSE path_env,
            Tail(additional))

\* env::var("PATH").unwrap_or_default(), then the loop.
extended_path(host) ==
    push_additional(IF IsSome(host.path_env) THEN Unwrap(host.path_env) ELSE <<>>,
                    additional_paths)

\* The process.env calls: PATH on macOS, then the Command's variables.
child_env(command, host) ==
    (IF host.macos THEN <<[key |-> "PATH", value |-> extended_path(host)]>> ELSE <<>>)
    \o [i \in 1..Len(command.environment_variables) |->
            [key |-> command.environment_variables[i].key,
             value |-> command.environment_variables[i].value]]

\* Mutant of run_process: the working directory is not checked.
run_process_unchecked(command, program, args, host) ==
    IF host.spawn_ok
    THEN Spawned(program, args, command.working_directory, child_env(command, host))
    ELSE ExecutionFailed

run_process(command, program, args, host) ==
    IF /\ IsSome(command.working_directory)
       /\ Unwrap(command.working_directory) \notin ExistingDirs
    THEN InvalidPath(Unwrap(command.working_directory))
    ELSE IF host.spawn_ok
         THEN Spawned(program, args, command.working_directory, child_env(command, host))
         ELSE ExecutionFailed

execute(command, host) ==
    run_process(command, command.command, command.args, host)

execute_with_shell(command, host) ==
    run_process(command, <<"s", "h">>, << <<"-", "c">>, full_command(command) >>, host)

(***************************************************************************)
(* The handlers of the GUI layer (lib.rs), each under the storage mutex.   *)
(***************************************************************************)
RECURSIVE add_environment_variables(_, _)
add_environment_variables(c, evs) ==
    IF evs = <<>> THEN c
    ELSE add_environment_variables(
            add_environment_variable(c, Head(evs).key, Head(evs).value), Tail(evs))

RECURSIVE add_tags(_, _)
add_tags(c, tags) ==
    IF tags = <<>> THEN c ELSE add_tags(add_tag(c, Head(tags)), Tail(tags))

RECURSIVE add_parameters(_, _)
add_parameters(c, dtos) ==
    IF dtos = <<>> THEN c
    ELSE add_parameters(add_parameter(c, parameter_from_dto(Head(dtos))), Tail(dtos))

\* create_command, up to the lock: the Command built from the request.
build_command(request, id, now) ==
    LET c0 == with_args(new(id, request.name, request.command, now), request.args)
        c1 == IF IsSome(request.description)
              THEN with_description(c0, Unwrap(request.description)) ELSE c0
        c2 == IF IsSome(request.working_directory)
              THEN with_working_directory(c1, Unwrap(request.working_directory)) ELSE c1
        c3 == add_environment_variables(c2, request.environment_variables)
        c4 == add_tags(c3, request.tags)
    IN  add_parameters(c4, request.parameters)

create_command(f, request, id, now) == create(f, build_command(request, id, now))

\* update_command: update, then read.  ret is what update returned, read
\* what the following read(uuid) returned (the handler's answer).
update_command(f, id, request, now) ==
    LET u == update(f, id, [kind |-> "update_command", request |-> Some(request)], now)
    IN  [err |-> u.err, ret |-> u.ret, file |-> u.file, saved |-> u.saved,
         read |-> IF u.err = "" THEN read(u.file, id).ret ELSE None]

delete_command(f, id) == delete(f, id)

search_commands_by_tags(f, tags) == search_by_tags(f, tags)

\* execute_command and execute_with_parameters: [err, ret, file, saved, exec, ran]
\* where exec is the executor's result and ran the Command handed to it.
run_executor(command, use_shell, host) ==
    IF use_shell THEN execute_with_shell(command, host)
    ELSE execute(command, host)

execute_command(f, id, use_shell, host, now) ==
    LET r == read(f, id)
    IN  IF r.err # ""
        THEN [err |-> r.err, file |-> f, saved |-> None, exec |-> None, ran |-> None]
        ELSE LET command == Unwrap(r.ret)
                 u == update(f, id, [kind |-> "mark_as_used", request |-> None], now)
                 x == run_executor(command, use_shell, host)
             IN  [err |-> x.err, file |-> u.file, saved |-> u.saved,
                  exec |-> Some(x), ran |-> Some(command)]

\* Mutant of execute_command_with_parameters: the resolved program and
\* arguments are written back to the store with the usage mark.
execute_command_with_parameters_writes_back(f, id, parameters, order, use_shell, host, now) ==
    LET r == read(f, id)
    IN  IF r.err # ""
        THEN [err |-> r.err, file |-> f, saved |-> None, exec |-> None, ran |-> None]
        ELSE LET read_command == Unwrap(r.ret)
                 replaced == replace_placeholders(read_command, parameters, order)
                 command == [read_command EXCEPT !.command = replaced.command,
                                                 !.args = replaced.args]
                 commands == load_all(f)
                 i == find_id(commands, id)
                 marked == command_update(mark_as_used(command, now), now)
                 x == run_executor(command, use_shell, host)
             IN  [err |-> x.err, file |-> save_all([commands EXCEPT ![i] = marked]),
                  saved |-> Some([commands EXCEPT ![i] = marked]),
                  exec |-> Some(x), ran |-> Some(command)]

execute_command_with_parameters(f, id, parameters, order, use_shell, host, now) ==
    LET r == read(f, id)
    IN  IF r.err # ""
        THEN [err |-> r.err, file |-> f, saved |-> None, exec |-> None, ran |-> None]
        ELSE LET read_command == Unwrap(r.ret)
                 replaced == replace_placeholders(read_command, parameters, order)
                 command == [read_command EXCEPT !.command = replaced.command,
                                                 !.args = replaced.args]
                 u == update(f, id, [kind |-> "mark_as_used", request |-> None], now)
                 x == run_executor(command, use_shell, host)
             IN  [err |-> x.err, file |-> u.file, saved |-> u.saved,
                  exec |-> Some(x), ran |-> Some(command)]

(***************************************************************************)
(* Inputs.                                                                 *)
(***************************************************************************)
\* Two names that differ in case only.
Names == {"a", "A"}
Tags == {"t", "u"}
\* The tag lists of the requests to the store: none, one, one repeated.
TagLists == {<<>>, <<"t">>, <<"t", "t">>}

ParameterDto ==
    [name |-> "x", placeholder |-> "X", parameter_type |-> "select",
     required |-> TRUE, default_value |-> Some("v"), options |-> Some(<<"v", "w">>)]
UntypedParameterDto ==
    [name |-> "y", placeholder |-> "Y", parameter_type |-> "number",
     required |-> FALSE, default_value |-> None, options |-> None]

\* The fields of a create request other than name and tags.
PlainFields ==
    [command |-> <<"l", "s">>, args |-> <<>>, description |-> None,
     working_directory |-> None, environment_variables |-> <<>>,
     parameters |-> <<>>]
PlaceholderFields ==
    [command |-> <<"$", "{", "x", "}">>, args |-> << <<"{", "x", "}">> >>,
     description |-> Some("d"), working_directory |-> Some("/nonexistent"),
     environment_variables |-> <<[key |-> "K", value |-> "1"]>>,
     parameters |-> <<ParameterDto>>]

CreateRequest(name, tags, rest) ==
    [name |-> name, command |-> rest.command, args |-> rest.args,
     description |-> rest.description, working_directory |-> rest.working_directory,
     environment_variables |-> rest.environment_variables, tags |-> tags,
     parameters |-> rest.parameters]
CreateRequests ==
    {CreateRequest(n, t, r) : n \in Names, t \in TagLists,
                              r \in {PlainFields, PlaceholderFields}}

\* The fields of an update request other than name and tags.
NoFields ==
    [command |-> None, args |-> None, description |-> None,
     working_directory |-> None, environment_variables |-> None,
     parameters |-> None]
AllFields ==
    [command |-> Some(<<"e", "{", "x", "}">>), args |-> Some(<< <<"$", "{", "x", "}">> >>),
     description |-> Some("e"), working_directory |-> Some("/tmp"),
     environment_variables |-> Some(<<[key |-> "K", value |-> "2"]>>),
     parameters |-> Some(<<UntypedParameterDto>>)]

UpdateRequest(name, tags, rest) ==
    [name |-> name, command |-> rest.command, args |-> rest.args,
     description |-> rest.description, working_directory |-> rest.working_directory,
     environment_variables |-> rest.environment_variables, tags |-> tags,
     parameters |-> rest.parameters]
\* A request that sets nothing, one field, the remaining fields, or all.
UpdateRequests ==
    {UpdateRequest(None, None, NoFields), UpdateRequest(None, None, AllFields)}
    \cup {UpdateRequest(Some(n), None, NoFields) : n \in Names}
    \cup {UpdateRequest(None, Some(t), NoFields) : t \in TagLists}
    \cup {UpdateRequest(Some(n), Some(t), AllFields) :
            n \in Names, t \in {x \in TagLists : Len(x) = 2}}

\* The parameters map of execute_command_with_parameters, and the orders in
\* which a HashMap with these keys may iterate.
ParameterMaps ==
    {[n \in {<<"x">>} |-> <<"v">>]}
Orders(values) ==
    {o \in SeqsUpTo(DOMAIN values, Cardinality(DOMAIN values)) :
        Len(o) = Cardinality(DOMAIN values) /\ NoDuplicates(o)}

\* The tag lists of a search: none, a tag in use, a tag not in use, both.
TagQueries == {<<>>, <<"t">>, <<"u">>, <<"u", "t">>}

\* The hosts the handlers of the store run on: process.output() succeeds or
\* fails.
StoreHosts == {[macos |-> FALSE, path_env |-> None, spawn_ok |-> ok] : ok \in BOOLEAN}

(***************************************************************************)
(* The store and its handlers as a state machine.                          *)
(*   file     the storage file (None: the path does not exist)             *)
(*   written  the vector last handed to save_all (<<>> before any save)    *)
(*   clock    Utc::now()                                                   *)
(*   nextId   the next value of Uuid::new_v4()                             *)
(*   handled  the number of requests handled so far                        *)
(*   last     the last request handled and its answer: the handler (op),   *)
(*            the id and input it was given, Utc::now() at the time (now), *)
(*            the file before it ran (before), the error ("" for Ok), the   *)
(*            value the store returned (ret), what a read that followed    *)
(*            returned (read), the executor's result (exec) and the        *)
(*            Command handed to the executor (ran)                         *)
(***************************************************************************)
NoRequest ==
    [op |-> "none", id |-> 0, input |-> None, now |-> 0, err |-> "", ret |-> None,
     read |-> None, before |-> None, exec |-> None, ran |-> None]

InitStoreVars ==
    /\ file = None
    /\ written = <<>>
    /\ nextId = 1
    /\ handled = 0
    /\ last = NoRequest

EntityIdle == [cmd |-> None, calls |-> WideZero, marks |-> 0, panicked |-> FALSE]
PureIdle ==
    [stage |-> "idle", command |-> <<>>, args |-> <<>>, values |-> <<>>,
     order |-> <<>>, out |-> None, detected |-> None]

ExeIdle == [stage |-> "idle", command |-> None, host |-> None, shell |-> FALSE, out |-> None]

Procs == {1, 2}
IdleProc ==
    [at |-> "idle", no |-> 0, with |-> {}, req |-> None, command |-> None,
     call |-> 0, seen |-> None, err |-> "", read |-> None, exec |-> None,
     marked |-> FALSE, executed |-> FALSE, base |-> None]
ConcIdle == [mutex |-> 0, accepted |-> 0, proc |-> [p \in Procs |-> IdleProc]]

Init ==
    /\ InitStoreVars
    /\ clock = 0
    /\ ent = EntityIdle
    /\ pure = PureIdle
    /\ exe = ExeIdle
    /\ conc = ConcIdle

\* The ids a request may name: every id handed out, and one that was not.
Ids == 1..nextId

Commit(r) ==
    /\ handled < MaxRequests
    /\ handled' = handled + 1
    /\ file' = r.file
    /\ written' = IF IsSome(r.saved) THEN Unwrap(r.saved) ELSE written

Tick ==
    /\ clock < MaxClock
    /\ clock' = clock + 1
    /\ UNCHANGED <<file, written, nextId, handled, last, ent, pure, exe, conc>>

CreateCommand ==
    \E request \in CreateRequests :
        /\ \E command \in {build_command(request, nextId, clock)} :
           \E r \in {create_command(file, request, nextId, clock)} :
               /\ Commit(r)
               /\ last' = [NoRequest EXCEPT !.op = "create_command", !.id = nextId,
                              !.input = Some(command), !.err = r.err, !.ret = r.ret,
                              !.before = file, !.now = clock]
        /\ nextId' = nextId + 1
        /\ UNCHANGED <<clock, ent, pure, exe, conc>>

ListCommands ==
    /\ \E r \in {list(file)} :
           /\ Commit(r)
           /\ last' = [NoRequest EXCEPT !.op = "list_commands", !.err = r.err,
                          !.ret = r.ret, !.before = file, !.now = clock]
    /\ UNCHANGED <<clock, nextId, ent, pure, exe, conc>>

GetCommand ==
    \E id \in Ids :
        /\ \E r \in {read(file, id)} :
               /\ Commit(r)
               /\ last' = [NoRequest EXCEPT !.op = "get_command", !.id = id,
                              !.err = r.err, !.ret = r.ret, !.before = file, !.now = clock]
        /\ UNCHANGED <<clock, nextId, ent, pure, exe, conc>>

UpdateCommand ==
    \E id \in Ids, request \in UpdateRequests :
        /\ \E r \in {update_command(file, id, request, clock)} :
               /\ Commit(r)
               /\ last' = [NoRequest EXCEPT !.op = "update_command", !.id = id,
                              !.input = Some(request), !.err = r.err, !.ret = r.ret,
                              !.read = r.read, !.before = file, !.now = clock]
        /\ UNCHANGED <<clock, nextId, ent, pure, exe, conc>>

DeleteCommand ==
    \E id \in Ids :
        /\ \E r \in {delete_command(file, id)} :
               /\ Commit(r)
               /\ last' = [NoRequest EXCEPT !.op = "delete_command", !.id = id,
                              !.err = r.err, !.before = file, !.now = clock]
        /\ UNCHANGED <<clock, nextId, ent, pure, exe, conc>>

SearchCommandsByTags ==
    \E tags \in TagQueries :
        /\ \E r \in {search_commands_by_tags(file, tags)} :
               /\ Commit(r)
               /\ last' = [NoRequest EXCEPT !.op = "search_commands_by_tags",
                              !.input = Some(tags), !.err = r.err, !.ret = r.ret,
                              !.before = file, !.now = clock]
        /\ UNCHANGED <<clock, nextId, ent, pure, exe, conc>>

ExecuteCommand ==
    \E id \in Ids, use_shell \in BOOLEAN, host \in StoreHosts :
        /\ \E r \in {execute_command(file, id, use_shell, host, clock)} :
               /\ Commit(r)
               /\ last' = [NoRequest EXCEPT !.op = "execute_command", !.id = id,
                              !.err = r.err, !.before = file, !.now = clock, !.exec = r.exec,
                              !.ran = r.ran]
        /\ UNCHANGED <<clock, nextId, ent, pure, exe, conc>>

ExecuteCommandWithParameters ==
    \E id \in Ids, parameters \in ParameterMaps, use_shell \in BOOLEAN,
       host \in StoreHosts :
        \E order \in Orders(parameters) :
                /\ \E r \in {execute_command_with_parameters(
                            file, id, parameters, order, use_shell, host, clock)} :
                   /\ Commit(r)
                   /\ last' = [NoRequest EXCEPT
                                  !.op = "execute_command_with_parameters", !.id = id,
                                  !.input = Some(parameters), !.err = r.err,
                                  !.before = file, !.now = clock, !.exec = r.exec, !.ran = r.ran]
            /\ UNCHANGED <<clock, nextId, ent, pure, exe, conc>>

Next ==
    \/ Tick
    \/ CreateCommand
    \/ ListCommands
    \/ GetCommand
    \/ UpdateCommand
    \/ DeleteCommand
    \/ SearchCommandsByTags
    \/ ExecuteCommand
    \/ ExecuteCommandWithParameters

Spec == Init /\ [][Next]_vars

(***************************************************************************)
(* One Command entity on its own: new, then any sequence of its methods.   *)
(*   ent.cmd       the Command (Some), None outside this specification     *)
(*   ent.calls     the number of mark_as_used calls that returned          *)
(*   ent.marks     the number of MarkAsUsed steps taken                    *)
(*   ent.panicked  a call panicked: the thread unwinds, no further calls   *)
(***************************************************************************)
Programs == {<<"l", "s">>, <<"$", "{", "x", "}">>}
EntityParameters ==
    {parameter_from_dto(ParameterDto), parameter_from_dto(UntypedParameterDto)}

\* A run of calls that is taken in one step: 2^32 - 2 of them.
BulkCalls == {<<Limb - 1, Limb - 2>>}

InitEntity ==
    /\ InitStoreVars
    /\ clock = 0
    /\ pure = PureIdle
    /\ exe = ExeIdle
    /\ conc = ConcIdle
    /\ \E name \in Names, program \in Programs :
          ent = [EntityIdle EXCEPT !.cmd = Some(new(1, name, program, 0))]

EntStep(cmd) ==
    /\ ent' = [ent EXCEPT !.cmd = Some(cmd)]
    /\ UNCHANGED <<file, written, clock, nextId, handled, last, pure, exe, conc>>

Alive == IsSome(ent.cmd) /\ ~ent.panicked
Cmd == Unwrap(ent.cmd)

AddTag == Alive /\ \E tag \in Tags : EntStep(add_tag(Cmd, tag))

RemoveTag == Alive /\ \E tag \in Tags : EntStep(remove_tag(Cmd, tag))

AddParameter ==
    /\ Alive
    /\ Len(Cmd.parameters) < MaxEntityItems
    /\ \E parameter \in EntityParameters : EntStep(add_parameter(Cmd, parameter))

RemoveParameter ==
    Alive /\ \E name \in {"x", "y"} : EntStep(remove_parameter(Cmd, name))

AddEnvironmentVariable ==
    /\ Alive
    /\ Len(Cmd.environment_variables) < MaxEntityItems
    /\ \E value \in {"1", "2"} : EntStep(add_environment_variable(Cmd, "K", value))

Update == Alive /\ EntStep(command_update(Cmd, clock))

\* One call that returns: always in a release build (the counter wraps), and
\* in a debug build unless the increment overflows.
MarkAsUsed ==
    /\ Alive
    /\ ent.marks < MaxMarkCalls
    /\ ent' = [ent EXCEPT !.cmd = Some(mark_as_used(Cmd, clock)),
                          !.calls = WideAdd(@, U32One),
                          !.marks = @ + 1]
    /\ UNCHANGED <<file, written, clock, nextId, handled, last, pure, exe, conc>>

\* The call of a debug build whose increment overflows: it panics.
MarkAsUsedPanic ==
    /\ Alive
    /\ mark_as_used_overflows(Cmd)
    /\ ent' = [ent EXCEPT !.cmd = Some(mark_as_used_panicked(Cmd, clock)),
                          !.panicked = TRUE]
    /\ UNCHANGED <<file, written, clock, nextId, handled, last, pure, exe, conc>>

\* k calls in a row, none of which overflows, taken as one step.
MarkAsUsedTimes ==
    /\ Alive
    /\ \E k \in BulkCalls :
          /\ ~U32AddOverflows(Cmd.use_count, k)
          /\ ent' = [ent EXCEPT
                        !.cmd = Some([Cmd EXCEPT !.last_used_at = Some(clock),
                                                 !.use_count = U32WrappingAdd(@, k)]),
                        !.calls = WideAdd(@, k)]
    /\ UNCHANGED <<file, written, clock, nextId, handled, last, pure, exe, conc>>

NextEntity ==
    \/ Tick
    \/ AddTag
    \/ RemoveTag
    \/ AddParameter
    \/ RemoveParameter
    \/ AddEnvironmentVariable
    \/ Update
    \/ MarkAsUsed
    \/ MarkAsUsedPanic
    \/ MarkAsUsedTimes

SpecEntity == InitEntity /\ [][NextEntity]_vars

(***************************************************************************)
(* replace_placeholders as a function of its inputs.                       *)
(*   pure.command, pure.args   the program and arguments of the Command    *)
(*   pure.values               the HashMap, a function from names to values*)
(*   pure.order                the order in which the map iterated         *)
(*   pure.out                  Some(result) once the function has run      *)
(*   pure.detected             Some(names) once detect_placeholders has run*)
(***************************************************************************)
Alphabet == {"$", "{", "}", "x", "y"}
PureStrings == SeqsUpTo(Alphabet, MaxProgramLen)
PureArgs == {<<>>, << <<"$", "{", "x", "}">> >>, << <<"{", "x", "}">>, <<"-", "{", "y", "}">> >>}
PureMaps ==
    {[n \in {<<"x">>} |-> <<"v">>],
     [n \in {<<"x">>, <<"y">>} |-> IF n = <<"x">> THEN <<"v">> ELSE <<"w">>],
     [n \in {<<"x">>, <<"y">>} |-> IF n = <<"x">> THEN <<"{", "y", "}">> ELSE <<"w">>]}

PureCommand == with_args(new(1, "a", pure.command, 0), pure.args)

InitPure ==
    /\ InitStoreVars
    /\ clock = 0
    /\ ent = EntityIdle
    /\ exe = ExeIdle
    /\ conc = ConcIdle
    /\ \E command \in PureStrings, args \in PureArgs, values \in PureMaps :
          pure = [PureIdle EXCEPT !.stage = "input", !.command = command,
                                  !.args = args, !.values = values]

ReplacePlaceholders ==
    /\ pure.stage = "input"
    /\ \E order \in Orders(pure.values) :
          pure' = [pure EXCEPT
                      !.stage = "replaced", !.order = order,
                      !.out = Some(replace_placeholders(PureCommand, pure.values, order))]
    /\ UNCHANGED <<file, written, clock, nextId, handled, last, ent, exe, conc>>

DetectPlaceholders ==
    /\ pure.stage = "input"
    /\ pure' = [pure EXCEPT !.stage = "detected",
                            !.detected = Some(detect_placeholders(PureCommand))]
    /\ UNCHANGED <<file, written, clock, nextId, handled, last, ent, exe, conc>>

NextPure ==
    \/ ReplacePlaceholders
    \/ DetectPlaceholders

SpecPure == InitPure /\ [][NextPure]_vars

(***************************************************************************)
(* The executor on its own: one Command run on one host, in either mode.   *)
(*   exe.command  the Command handed to the executor                       *)
(*   exe.host     the host it runs on                                      *)
(*   exe.shell    execute_with_shell was called (else execute)             *)
(*   exe.out      Some(result) once the call has returned                  *)
(***************************************************************************)
InheritedPaths ==
    {None,
     Some(<<>>),
     Some(<<"/", "u", "s", "r", "/", "b", "i", "n", ":", "/", "b", "i", "n">>),
     Some(<<"/", "u", "s", "r", "/", "l", "o", "c", "a", "l", "/", "b", "i", "n">>),
     Some(<<"/", "o", "p", "t", "/", "h", "o", "m", "e", "b", "r", "e", "w", "/", "b", "i", "n", ":", "/", "u", "s", "r", "/", "s", "b", "i", "n">>),
     Some(<<"/", "h", "o", "m", "e", "/", "u", "/", "b", "i", "n">>),
     Some(<<"/", "o", "p", "t", "/", "h", "o", "m", "e", "b", "r", "e", "w", "/", "b", "i", "n", ":", "/", "u", "s", "r", "/", "l", "o", "c", "a", "l", "/", "b", "i", "n", ":", "/", "u", "s", "r", "/", "b", "i", "n", ":", "/", "b", "i", "n", ":", "/", "u", "s", "r", "/", "s", "b", "i", "n", ":", "/", "s", "b", "i", "n">>)}
Hosts ==
    {[macos |-> m, path_env |-> p, spawn_ok |-> ok] :
        m \in BOOLEAN, p \in InheritedPaths, ok \in BOOLEAN}

WorkingDirectories == {None, Some("/tmp"), Some("/nonexistent")}
ExecCommands ==
    {[with_args(new(1, "a", program, 0), args) EXCEPT
        !.working_directory = wd, !.environment_variables = evs] :
        program \in {<<"l", "s">>, <<"e", "c", "h", "o">>},
        args \in {<<>>, << <<"-", "l">> >>},
        wd \in WorkingDirectories,
        evs \in {<<>>, <<[key |-> "K", value |-> <<"1">>]>>}}

InitExec ==
    /\ InitStoreVars
    /\ clock = 0
    /\ ent = EntityIdle
    /\ pure = PureIdle
    /\ conc = ConcIdle
    /\ \E command \in ExecCommands, host \in Hosts :
          exe = [ExeIdle EXCEPT !.stage = "input", !.command = Some(command),
                                !.host = Some(host)]

Execute ==
    /\ exe.stage = "input"
    /\ exe' = [exe EXCEPT !.stage = "done", !.shell = FALSE,
                          !.out = Some(execute(Unwrap(exe.command), Unwrap(exe.host)))]
    /\ UNCHANGED <<file, written, clock, nextId, handled, last, ent, pure, conc>>

ExecuteWithShell ==
    /\ exe.stage = "input"
    /\ exe' = [exe EXCEPT !.stage = "done", !.shell = TRUE,
                          !.out = Some(execute_with_shell(Unwrap(exe.command),
                                                          Unwrap(exe.host)))]
    /\ UNCHANGED <<file, written, clock, nextId, handled, last, ent, pure, conc>>

NextExec ==
    \/ Execute
    \/ ExecuteWithShell

SpecExec == InitExec /\ [][NextExec]_vars

(***************************************************************************)
(* The handlers as threads.  A handler is accepted, takes the storage      *)
(* mutex, makes its calls of the store, each a load of the file followed   *)
(* by the rest of the call, calls the executor if it is an execute         *)
(* handler, and returns, which drops the guard.                            *)
(*   conc.mutex     0 when free, else the thread that holds the guard      *)
(*   conc.accepted  the number of requests accepted so far                 *)
(*   conc.proc[p]   the thread p:                                          *)
(*     at        "idle", "lock", "load", "finish", "exec" or "return"      *)
(*     no, with  the number of its request, and the numbers of the         *)
(*               requests that were in flight when it was accepted         *)
(*     req       the request: handler, id, input, use_shell, host          *)
(*     command   the Command built (create) or read and resolved (execute) *)
(*     call      the index of the store call it is in                      *)
(*     seen      the file as the call in progress loaded it                *)
(*     err       the error it returns ("" for Ok)                          *)
(*     read      the Command as read, before resolving                     *)
(*     exec      the executor's result                                     *)
(*     marked, executed   the usage update / the executor call was made    *)
(*     base      the file when the request was accepted                    *)
(***************************************************************************)
\* Mutant of can_lock: lock() never waits.
can_lock_always(mutex) == TRUE

\* state.storage.lock(): the guard is handed out when no thread holds it.
can_lock(mutex) == mutex = 0

IsExecute(op) == op \in {"execute_command", "execute_command_with_parameters"}

\* The calls of the store a handler makes, in order.
handler_calls(op) ==
    CASE op = "create_command" -> <<"create">>
      [] op = "update_command" -> <<"update", "read">>
      [] op = "delete_command" -> <<"delete">>
      [] IsExecute(op) -> <<"read", "update">>

\* The call pr.call of the handler, made on the file content f.
handler_call(pr, f, now) ==
    LET req == Unwrap(pr.req)
        name == handler_calls(req.op)[pr.call]
    IN  CASE name = "create" -> create(f, Unwrap(pr.command))
          [] name = "read" -> read(f, req.id)
          [] name = "delete" -> delete(f, req.id)
          [] name = "update" ->
                update(f, req.id,
                       IF IsExecute(req.op)
                       THEN [kind |-> "mark_as_used", request |-> None]
                       ELSE [kind |-> "update_command", request |-> req.input],
                       now)

\* The Command an execute handler hands to the executor, from the one read.
resolved(req, command) ==
    IF req.op = "execute_command_with_parameters"
    THEN LET values == Unwrap(req.input)
             replaced == replace_placeholders(command, values, req.order)
         IN  [command EXCEPT !.command = replaced.command, !.args = replaced.args]
    ELSE command

ConcRequests ==
    {[op |-> "create_command", id |-> 0, input |-> Some(CreateRequest(n, <<>>, r)),
      order |-> <<>>, shell |-> FALSE, host |-> None] :
        n \in Names, r \in {PlainFields, PlaceholderFields}}
    \cup {[op |-> "update_command", id |-> id,
           input |-> Some(UpdateRequest(Some(n), None, NoFields)),
           order |-> <<>>, shell |-> FALSE, host |-> None] : id \in Ids, n \in Names}
    \cup {[op |-> "delete_command", id |-> id, input |-> None, order |-> <<>>,
           shell |-> FALSE, host |-> None] : id \in Ids}
    \cup {[op |-> "execute_command", id |-> id, input |-> None, order |-> <<>>,
           shell |-> FALSE, host |-> Some(h)] : id \in Ids, h \in StoreHosts}
    \cup UNION {{[op |-> "execute_command_with_parameters", id |-> id,
                  input |-> Some(values), order |-> o, shell |-> TRUE, host |-> Some(h)] :
                    id \in Ids, o \in Orders(values), h \in {x \in StoreHosts : x.spawn_ok}} :
                values \in ParameterMaps}

\* A store that holds one entry, made by create_command on the empty store.
OneEntryFile ==
    create_command(None, CreateRequest("a", <<"t">>, PlainFields), 1, 0).file

InitConc ==
    /\ written = <<>>
    /\ handled = 0
    /\ last = NoRequest
    /\ clock = 0
    /\ ent = EntityIdle
    /\ pure = PureIdle
    /\ exe = ExeIdle
    /\ conc = ConcIdle
    /\ \/ file = None /\ nextId = 1
       \/ file = OneEntryFile /\ nextId = 2

InFlight == {conc.proc[p].no : p \in {q \in Procs : conc.proc[q].at # "idle"}}

ConcStep(p, pr) ==
    /\ conc' = [conc EXCEPT !.proc[p] = pr]
    /\ UNCHANGED <<file, written, clock, nextId, handled, last, ent, pure, exe>>

\* The handler is called: a create builds its Command before it locks.
Accept(p) ==
    /\ conc.proc[p].at = "idle"
    /\ conc.accepted < MaxConcRequests
    /\ \E req \in ConcRequests :
          /\ conc' = [conc EXCEPT
                !.accepted = @ + 1,
                !.proc[p] = [IdleProc EXCEPT
                    !.at = "lock", !.no = conc.accepted + 1, !.with = InFlight,
                    !.req = Some(req), !.base = file,
                    !.command = IF req.op = "create_command"
                                THEN Some(build_command(Unwrap(req.input), nextId, clock))
                                ELSE None]]
          /\ nextId' = IF req.op = "create_command" THEN nextId + 1 ELSE nextId
    /\ UNCHANGED <<file, written, clock, handled, last, ent, pure, exe>>

Lock(p) ==
    /\ conc.proc[p].at = "lock"
    /\ can_lock(conc.mutex)
    /\ conc' = [conc EXCEPT !.mutex = p, !.proc[p].at = "load", !.proc[p].call = 1]
    /\ UNCHANGED <<file, written, clock, nextId, handled, last, ent, pure, exe>>

\* load_all at the start of a call of the store.
Load(p) ==
    /\ conc.proc[p].at = "load"
    /\ ConcStep(p, [conc.proc[p] EXCEPT !.at = "finish", !.seen = file])

\* The rest of the call: its check or change on what was loaded, and
\* save_all if it changes the collection.  An Err returns from the handler.
Finish(p) ==
    LET pr == conc.proc[p]
        req == Unwrap(pr.req)
        calls == handler_calls(req.op)
    IN  /\ pr.at = "finish"
        /\ \E r \in {handler_call(pr, pr.seen, clock)} :
              /\ file' = IF IsSome(r.saved) THEN r.file ELSE file
              /\ conc' = [conc EXCEPT !.proc[p] =
                    [pr EXCEPT
                       !.err = r.err,
                       !.read = IF IsExecute(req.op) /\ calls[pr.call] = "read"
                                THEN r.ret ELSE @,
                       !.command = IF IsExecute(req.op) /\ calls[pr.call] = "read" /\ r.err = ""
                                   THEN Some(resolved(req, Unwrap(r.ret))) ELSE @,
                       !.marked = IF IsExecute(req.op) /\ calls[pr.call] = "update" /\ r.err = ""
                                  THEN TRUE ELSE @,
                       !.call = IF r.err = "" /\ pr.call < Len(calls) THEN @ + 1 ELSE @,
                       !.at = IF r.err # "" THEN "return"
                              ELSE IF pr.call < Len(calls) THEN "load"
                              ELSE IF IsExecute(req.op) THEN "exec"
                              ELSE "return"]]
        /\ UNCHANGED <<written, clock, nextId, handled, last, ent, pure, exe>>

\* state.executor.execute(&command) or execute_with_shell(&command)
Exec(p) ==
    LET pr == conc.proc[p]
        req == Unwrap(pr.req)
    IN  /\ pr.at = "exec"
        /\ \E x \in {run_executor(Unwrap(pr.command), req.shell, Unwrap(req.host))} :
              ConcStep(p, [pr EXCEPT !.at = "return", !.executed = TRUE,
                                     !.exec = Some(x), !.err = x.err])

\* The handler returns: the guard goes out of scope.
Return(p) ==
    /\ conc.proc[p].at = "return"
    /\ conc' = [conc EXCEPT !.mutex = IF @ = p THEN 0 ELSE @,
                            !.proc[p].at = "idle"]
    /\ UNCHANGED <<file, written, clock, nextId, handled, last, ent, pure, exe>>

NextConc ==
    \E p \in Procs :
        \/ Accept(p)
        \/ Lock(p)
        \/ Load(p)
        \/ Finish(p)
        \/ Exec(p)
        \/ Return(p)

SpecConc == InitConc /\ [][NextConc]_vars

(***************************************************************************)
(* Properties.                                                             *)
(***************************************************************************)
Stored == load_all(file)
Before == load_all(last.before)
RemoveAt(s, k) == SubSeq(s, 1, k - 1) \o SubSeq(s, k + 1, Len(s))
IdsOf(commands) == [i \in 1..Len(commands) |-> commands[i].id]

\* C1: no two entries of the persisted collection have the same name.
NamesAreUnique ==
    \A i, j \in 1..Len(Stored) : Stored[i].name = Stored[j].name => i = j

\* C2: create fails with DuplicateName and leaves the file as it was when an
\* entry has the command's name; otherwise the collection is the old one with
\* the command appended, and the command is returned as passed in.
CreateContract ==
    last.op = "create_command" =>
        LET command == Unwrap(last.input)
        IN  IF \E i \in 1..Len(Before) : Before[i].name = command.name
            THEN /\ last.err = "DuplicateName"
                 /\ file = last.before
            ELSE /\ last.err = ""
                 /\ Stored = Append(Before, command)
                 /\ last.ret = Some(command)

CreateRejectedDuplicate ==
    /\ last.op = "create_command"
    /\ last.err = "DuplicateName"
    /\ Len(Stored) >= 1

\* C3: delete fails with NotFound and leaves the file as it was when no entry
\* has the id; otherwise exactly that entry is gone, every other entry is
\* still there unchanged, and a read of the id fails with NotFound.
DeleteContract ==
    last.op = "delete_command" =>
        IF \A i \in 1..Len(Before) : Before[i].id # last.id
        THEN /\ last.err = "NotFound"
             /\ file = last.before
        ELSE /\ last.err = ""
             /\ \E k \in 1..Len(Before) :
                   /\ Before[k].id = last.id
                   /\ Stored = RemoveAt(Before, k)
             /\ read(file, last.id).err = "NotFound"

DeletedOneOfTwo ==
    /\ last.op = "delete_command"
    /\ last.err = ""
    /\ Len(Before) = 2
    /\ Len(Stored) = 1

\* C4: update fails with NotFound and leaves the file as it was when no entry
\* has the id; otherwise the mutator is applied to that entry only, its
\* updated_at is the time of the call, every other entry keeps its value and
\* position, and the value returned is what a following read returns.
UpdateContract ==
    last.op = "update_command" =>
        LET i == find_id(Before, last.id)
            update_fn == [kind |-> "update_command", request |-> last.input]
        IN  IF i = 0
            THEN /\ last.err = "NotFound"
                 /\ file = last.before
                 /\ last.ret = None
            ELSE /\ last.err = ""
                 /\ Len(Stored) = Len(Before)
                 /\ \A j \in 1..Len(Before) : j # i => Stored[j] = Before[j]
                 /\ Stored[i] = [call_update_fn(update_fn, Before[i], last.now)
                                    EXCEPT !.updated_at = last.now]
                 /\ LET request == Unwrap(last.input)
                        Set(field, was, now) ==
                            IF IsSome(field) THEN now = Unwrap(field) ELSE now = was
                    IN  /\ Set(request.name, Before[i].name, Stored[i].name)
                        /\ Set(request.command, Before[i].command, Stored[i].command)
                        /\ Set(request.args, Before[i].args, Stored[i].args)
                        /\ Set(request.tags, Before[i].tags, Stored[i].tags)
                        /\ Stored[i].id = Before[i].id
                        /\ Stored[i].created_at = Before[i].created_at
                        /\ Stored[i].use_count = Before[i].use_count
                        /\ Stored[i].last_used_at = Before[i].last_used_at
                 /\ last.ret = Some(Stored[i])
                 /\ last.read = last.ret
                 /\ read(file, last.id).ret = last.ret

UpdatedSecondOfTwo ==
    /\ last.op = "update_command"
    /\ last.err = ""
    /\ Len(Before) = 2
    /\ Before[2].id = last.id
    /\ Stored[2].name # Before[2].name
    /\ Stored[2].updated_at # Before[2].updated_at

\* C5: list returns what was last written, equal in all fields and in
\* insertion order; update and delete keep the order of the entries they
\* leave; a store whose file does not exist lists as empty, without error.
RoundTripAndOrder ==
    /\ list(file).err = ""
    /\ list(file).ret = Some(written)
    /\ file = None => list(file).ret = Some(<<>>)
    /\ \A i, j \in 1..Len(Stored) : i < j => Stored[i].id < Stored[j].id
    /\ (last.op \in {"update_command", "execute_command",
                     "execute_command_with_parameters"} /\ last.err = "")
          => IdsOf(Stored) = IdsOf(Before)
    /\ (last.op = "delete_command" /\ last.err = "")
          => LET Kept(id) == id # last.id
             IN  IdsOf(Stored) = SelectSeq(IdsOf(Before), Kept)

ListedTwoAfterUpdate ==
    /\ last.op = "update_command"
    /\ last.err = ""
    /\ Len(written) = 2
    /\ \E i \in 1..2 : /\ IsSome(written[i].description)
                       /\ Len(written[i].parameters) > 0
    /\ \E i \in 1..2 : written[i].description = None

\* C6: the tags of a Command hold no duplicates: of an entity changed by
\* add_tag and remove_tag, and of every entry of the store.
TagsHaveNoDuplicates ==
    /\ IsSome(ent.cmd) => NoDuplicates(Cmd.tags)
    /\ \A i \in 1..Len(Stored) : NoDuplicates(Stored[i].tags)

\* C7: last_used_at is set if and only if use_count > 0.
LastUsedIffUsed ==
    IsSome(ent.cmd) => (IsSome(Cmd.last_used_at) <=> ~U32IsZero(Cmd.use_count))

\* C8: after N calls of mark_as_used, use_count is N and last_used_at is set.
UseCountIsNumberOfCalls ==
    IsSome(ent.cmd) =>
        /\ WideOfU32(Cmd.use_count) = ent.calls
        /\ ent.calls # WideZero => IsSome(Cmd.last_used_at)

\* C9: a program or argument that is the token {name} or ${name} resolves to
\* the value given for name (a value that holds no token itself).
TokenResolvesToValue ==
    pure.stage = "replaced" =>
        \A name \in DOMAIN pure.values :
            LET value == pure.values[name]
                tokens == {format_brace(name), format_dollar_brace(name)}
                out == Unwrap(pure.out)
            IN  "{" \notin Range(value) =>
                    /\ pure.command \in tokens => out.command = value
                    /\ \A i \in 1..Len(pure.args) :
                          pure.args[i] \in tokens => out.args[i] = value

\* C10: after execute_command_with_parameters the entry of the store has the
\* program and args it had (the placeholders unresolved); only its
\* last_used_at, use_count and updated_at change, and no other entry does.
ExecuteKeepsDefinition ==
    (last.op = "execute_command_with_parameters" /\ IsSome(last.ran)) =>
        LET i == find_id(Before, last.id)
        IN  /\ Len(Stored) = Len(Before)
            /\ \A j \in 1..Len(Before) : j # i => Stored[j] = Before[j]
            /\ Stored[i].command = Before[i].command
            /\ Stored[i].args = Before[i].args
            /\ Stored[i] = [Before[i] EXCEPT
                               !.last_used_at = Some(last.now),
                               !.use_count = U32WrappingAdd(@, U32One),
                               !.updated_at = last.now]

ExecutedResolvedCopy ==
    /\ last.op = "execute_command_with_parameters"
    /\ IsSome(last.ran)
    /\ LET i == find_id(Before, last.id)
           ran == Unwrap(last.ran)
       IN  /\ ran.command # Before[i].command
           /\ ran.args # Before[i].args
           /\ ran.command = <<"$", "v">>
           /\ Stored[i].command = Before[i].command
           /\ Stored[i].updated_at # Before[i].updated_at

\* C11: detect_placeholders returns the names of the tokens {name} and
\* ${name} of full_command, each once, in the order of their first token; a
\* name is a non-empty run of characters other than "}", and a token starts
\* at the first "{" after the end of the token before it.  Without a token
\* the list is empty.
Scanned == full_command(PureCommand)
\* The tokens of s as <<open, close>>: close is a "}", open the first "{"
\* after the "}" before it (or after the start), with a character in between.
TokensOf(s) ==
    {t \in (1..Len(s)) \X (1..Len(s)) :
        /\ t[1] + 1 < t[2]
        /\ s[t[1]] = "{"
        /\ s[t[2]] = "}"
        /\ \A m \in (t[1] + 1)..(t[2] - 1) : s[m] # "}"
        /\ \A m \in 1..(t[1] - 1) :
              s[m] = "{" => \E n \in (m + 1)..(t[1] - 1) : s[n] = "}"}
NameOf(s, t) == SubSeq(s, t[1] + 1, t[2] - 1)
FirstTokenOf(s, name) ==
    CHOOSE p \in 1..Len(s) :
        /\ \E t \in TokensOf(s) : t[1] = p /\ NameOf(s, t) = name
        /\ \A t \in TokensOf(s) : NameOf(s, t) = name => p <= t[1]
DetectContract ==
    pure.stage = "detected" =>
        LET names == Unwrap(pure.detected)
        IN  /\ NoDuplicates(names)
            /\ Range(names) = {NameOf(Scanned, t) : t \in TokensOf(Scanned)}
            /\ \A i, j \in 1..Len(names) :
                  i < j => FirstTokenOf(Scanned, names[i]) < FirstTokenOf(Scanned, names[j])
            /\ \A i \in 1..Len(names) :
                  /\ names[i] # <<>>
                  /\ "}" \notin Range(names[i])
                  /\ Contains(Scanned, format_brace(names[i]))
            /\ TokensOf(Scanned) = {} => names = <<>>

\* A name found twice (in the program and in an argument) and a second name
\* after it.
DetectedTwoNamesOnce ==
    /\ pure.stage = "detected"
    /\ pure.command = <<"$", "{", "x", "}">>
    /\ Len(pure.args) = 2
    /\ Unwrap(pure.detected) = << <<"x">>, <<"y">> >>

\* C12: in both modes, a working_directory that is set and does not exist
\* gives InvalidPath with that path and no child process; with no
\* working_directory the check is skipped and process.output() decides: the
\* child is started in the inherited directory, or the start itself fails.
ExeCommand == Unwrap(exe.command)
ExeHost == Unwrap(exe.host)
ExeOut == Unwrap(exe.out)
WorkingDirectoryIsChecked ==
    exe.stage = "done" =>
        LET dir == ExeCommand.working_directory
        IN  /\ (IsSome(dir) /\ Unwrap(dir) \notin ExistingDirs) =>
                  /\ ExeOut.err = "InvalidPath"
                  /\ ExeOut.path = dir
                  /\ ExeOut.spawned = None
            /\ dir = None =>
                  /\ ExeOut.err # "InvalidPath"
                  /\ ExeOut.path = None
                  /\ ExeHost.spawn_ok =>
                        /\ ExeOut.err = ""
                        /\ IsSome(ExeOut.spawned)
                        /\ Unwrap(ExeOut.spawned).cwd = None
                        /\ Unwrap(ExeOut.spawned).program =
                              IF exe.shell THEN <<"s", "h">> ELSE ExeCommand.command
                  /\ ~ExeHost.spawn_ok => ExeOut.err = "ExecutionFailed"

ShellRunRejectedMissingDirectory ==
    /\ exe.stage = "done"
    /\ exe.shell
    /\ ExeHost.spawn_ok
    /\ ExeCommand.working_directory = Some("/nonexistent")
    /\ ExeOut.err = "InvalidPath"

\* C13: on macOS the PATH given to the child has each of the six common
\* directories as a colon-separated entry, keeps every inherited entry, and
\* adds no directory that is already an entry.
RECURSIVE split_colon(_)
split_colon(s) ==
    IF ":" \notin Range(s) THEN <<s>>
    ELSE LET i == CHOOSE k \in 1..Len(s) :
                    s[k] = ":" /\ \A m \in 1..(k - 1) : s[m] # ":"
         IN  <<SubSeq(s, 1, i - 1)>> \o split_colon(SubSeq(s, i + 1, Len(s)))
EntriesOf(path) == IF path = <<>> THEN <<>> ELSE split_colon(path)
\* The PATH of the child: the last assignment to PATH.
ChildPath ==
    LET env == Unwrap(ExeOut.spawned).env
        last_set == CHOOSE i \in 1..Len(env) :
                        env[i].key = "PATH" /\ \A j \in (i + 1)..Len(env) : env[j].key # "PATH"
    IN  env[last_set].value
InheritedPath == IF IsSome(ExeHost.path_env) THEN Unwrap(ExeHost.path_env) ELSE <<>>
PathIsNormalized ==
    (exe.stage = "done" /\ ExeHost.macos /\ IsSome(ExeOut.spawned)) =>
        LET inherited == EntriesOf(InheritedPath)
            child == EntriesOf(ChildPath)
            added == SubSeq(child, Len(inherited) + 1, Len(child))
        IN  /\ \A d \in Range(additional_paths) : d \in Range(child)
            /\ Len(child) >= Len(inherited)
            /\ SubSeq(child, 1, Len(inherited)) = inherited
            /\ \A i \in 1..Len(added) : added[i] \notin Range(inherited)
            /\ NoDuplicates(added)

\* C14: search_by_tags returns, in the order of the collection and each once,
\* exactly the entries that have at least one tag of the query; an entry with
\* none of the query's tags is left out, an empty query returns no entry, and
\* the file is left as it was.
SearchContract ==
    last.op = "search_commands_by_tags" =>
        LET query == Unwrap(last.input)
            found == Unwrap(last.ret)
            Shares(c) == Range(c.tags) \cap Range(query) # {}
        IN  /\ last.err = ""
            /\ file = last.before
            /\ \A i \in 1..Len(Stored) :
                  Shares(Stored[i]) <=> \E k \in 1..Len(found) : found[k] = Stored[i]
            /\ \A k \in 1..Len(found) : \E i \in 1..Len(Stored) : found[k] = Stored[i]
            /\ \A k, m \in 1..Len(found) :
                  k < m => find_id(Stored, found[k].id) < find_id(Stored, found[m].id)
            /\ query = <<>> => found = <<>>

SearchFoundOneOfTwo ==
    /\ last.op = "search_commands_by_tags"
    /\ last.input = Some(<<"u", "t">>)
    /\ Len(Stored) = 2
    /\ Len(Unwrap(last.ret)) = 1
    /\ Unwrap(last.ret)[1] = Stored[2]

\* C15: in every run of an execute handler the usage update of the store is
\* made after the executor call, and a run whose execution fails leaves
\* use_count and last_used_at of the stored entry as they were.
StoredEntry(id) == Stored[find_id(Stored, id)]
UsageIsRecordedAfterExecution ==
    \A p \in Procs :
        LET pr == conc.proc[p]
        IN  /\ pr.marked => pr.executed
            /\ (pr.at = "return" /\ IsSome(pr.exec) /\ Unwrap(pr.exec).err # "") =>
                  /\ StoredEntry(Unwrap(pr.req).id).use_count = Unwrap(pr.read).use_count
                  /\ StoredEntry(Unwrap(pr.req).id).last_used_at = Unwrap(pr.read).last_used_at

\* C16: under the storage mutex the load and save of a call have no load or
\* save of another handler in between: a handler between lock and return
\* holds the mutex alone, a call finishes on the file it loaded, so no update
\* is lost; and of two concurrent create_command requests with one name,
\* not yet in the store and with no third request in flight, one succeeds
\* and the other fails with DuplicateName.
Holding(p) == conc.proc[p].at \in {"load", "finish", "exec", "return"}
Returned(p) == conc.proc[p].at = "idle" /\ IsSome(conc.proc[p].req)
Concurrent(p, q) ==
    \/ conc.proc[p].no \in conc.proc[q].with
    \/ conc.proc[q].no \in conc.proc[p].with
\* No third request was in flight when either of the two was accepted, and
\* none was accepted between them.
OnlyTwo(p, q) ==
    /\ (conc.proc[p].with \cup conc.proc[q].with) \subseteq {conc.proc[p].no, conc.proc[q].no}
    /\ conc.proc[p].no - conc.proc[q].no \in {-1, 1}
FirstBase(p, q) ==
    IF conc.proc[p].no < conc.proc[q].no THEN conc.proc[p].base ELSE conc.proc[q].base
NamesIn(f) == {load_all(f)[i].name : i \in 1..Len(load_all(f))}
MutexSerializesHandlers ==
    /\ \A p \in Procs : Holding(p) => conc.mutex = p
    /\ \A p \in Procs : conc.proc[p].at = "finish" => conc.proc[p].seen = file
    /\ \A p, q \in Procs :
          (/\ p # q /\ Returned(p) /\ Returned(q) /\ Concurrent(p, q) /\ OnlyTwo(p, q)
           /\ Unwrap(conc.proc[p].req).op = "create_command"
           /\ Unwrap(conc.proc[q].req).op = "create_command"
           /\ Unwrap(conc.proc[p].command).name = Unwrap(conc.proc[q].command).name
           /\ Unwrap(conc.proc[p].command).name \notin NamesIn(FirstBase(p, q)))
          => /\ {conc.proc[p].err, conc.proc[q].err} = {"", "DuplicateName"}
             /\ Cardinality({i \in 1..Len(Stored) :
                                Stored[i].name = Unwrap(conc.proc[p].command).name}) = 1
    /\ \A p, q \in Procs :
          (/\ p # q /\ Returned(p) /\ Returned(q) /\ Concurrent(p, q)
           /\ Unwrap(conc.proc[p].req).op = "update_command"
           /\ IsExecute(Unwrap(conc.proc[q].req).op)
           /\ Unwrap(conc.proc[p].req).id = Unwrap(conc.proc[q].req).id
           /\ conc.proc[p].err = ""
           /\ conc.proc[q].marked)
          => /\ Some(StoredEntry(Unwrap(conc.proc[p].req).id).name)
                   = Unwrap(Unwrap(conc.proc[p].req).input).name
             /\ StoredEntry(Unwrap(conc.proc[p].req).id).use_count
                   = U32WrappingAdd(Unwrap(conc.proc[q].read).use_count, U32One)

OneOfTwoCreatesWon ==
    /\ Returned(1) /\ Returned(2) /\ Concurrent(1, 2)
    /\ Unwrap(conc.proc[1].req).op = "create_command"
    /\ Unwrap(conc.proc[2].req).op = "create_command"
    /\ Unwrap(conc.proc[1].command).name = Unwrap(conc.proc[2].command).name
    /\ conc.proc[1].err = "DuplicateName"
    /\ conc.proc[2].err = ""
    /\ conc.proc[1].base = conc.proc[2].base

\* C17: when no name of values is a substring of another name of values,
\* replace_placeholders gives the same (program, args) for every order in
\* which the map's pairs are applied.
NoNameInsideAnother(values) ==
    \A n, m \in DOMAIN values : n # m => ~Contains(m, n)
OrderDoesNotMatter ==
    (pure.stage = "replaced" /\ NoNameInsideAnother(pure.values)) =>
        \A order \in Orders(pure.values) :
            replace_placeholders(PureCommand, pure.values, order) = Unwrap(pure.out)

====
